---- MODULE Spec2Model ----
(***************************************************************************)
(* Feature computation engine of the trading bot: the transform chain of   *)
(* src/pipeline/feature_pipeline.py (build_feature_set and its six stages) *)
(* and of src/pipeline/data_pipeline.py (generate_derived_features), and   *)
(* the two pipelines that drive them (run, run_feature_pipeline).          *)
(*                                                                         *)
(* A table (pandas DataFrame) is a function from column names to columns;  *)
(* a column is a sequence indexed 1..n (row i of pandas is index i+1).     *)
(* The source columns datetime/open/high/low/close/volume hold integers.   *)
(* A derived column holds float values, written <<kind, a, b>>:            *)
(*   <<"nan",0,0>>   NaN (pandas' missing value)                           *)
(*   <<"inf",0,0>>   +infinity      <<"-inf",0,0>>  -infinity              *)
(*   <<"fin",a,b>>   a finite number; what a and b stand for is fixed per  *)
(*                   column and stated at the operator that produces it    *)
(*   <<"std",s,0>>   the sample standard deviation of the finite values s  *)
(***************************************************************************)
EXTENDS Integers, Sequences, FiniteSets, TLC

VARIABLES
    entry,       \* the function the caller invoked
    pc,          \* the step that runs next ("returned", "done", "failed" are final)
    window,      \* the rolling window passed down the chain
    df,          \* the table object the chain works on (mutated in place)
    given,       \* the table as it was when it was handed to the chain
    calls,       \* how many times the chain has been started on df
    first,       \* df as the first call of the chain returned it
    feature_df,  \* the table the completeness filter returned
    saved,       \* TRUE once save_processed_data has written the table
    rendered,    \* TRUE once the table was rendered
    error        \* the exception that ended the run, "" if none

vars == <<entry, pc, window, df, given, calls, first, feature_df, saved, rendered, error>>

\* Longest input series, and largest window, that are explored.
MaxLen == 3
MaxWindow == 3
\* Timestamps a raw row may carry (two suffice for unsorted and duplicated rows).
MaxTs == 2
\* Longest raw table a pipeline run is started on.
MaxRawLen == 3
\* How often a caller calls the chain on the same table.
MaxCalls == 2

NaN == <<"nan", 0, 0>>
PosInf == <<"inf", 0, 0>>
NegInf == <<"-inf", 0, 0>>
Fin(a, b) == <<"fin", a, b>>

IsNaN(v) == v[1] = "nan"
IsFinite(v) == v[1] \in {"fin", "std"}

OHLCV == {"open", "high", "low", "close", "volume"}

FeatureCols ==
    {"log_return", "simple_return", "rolling_mean", "rolling_std", "rolling_zscore",
     "rolling_volatility", "price_range", "rolling_range", "volume_mean",
     "volume_zscore", "trend_strength"}

NoTable == [c \in {} |-> <<>>]

Bar(o, h, l, c, v) == [open |-> o, high |-> h, low |-> l, close |-> c, volume |-> v]

\* The bars an input row is drawn from: closes 0, 1 and 2 (a zero close, equal
\* and different closes), volumes 0 and 1, ranges high - low of 0, 1 and 2.
Bars ==
    { Bar(1, 2, 1, 1, 0), Bar(1, 1, 1, 1, 1), Bar(2, 2, 1, 2, 1),
      Bar(2, 3, 1, 2, 0), Bar(1, 1, 0, 0, 1), Bar(2, 3, 2, 3, 1) }

\* The table with timestamp column tscol = tss and one row per bar.
MakeTable(tscol, tss, bars) ==
    [c \in {tscol} \cup OHLCV |->
        IF c = tscol THEN tss ELSE [i \in 1..Len(bars) |-> bars[i][c]]]

\* Number of rows of a table (every table here has a close column).
NRows(d) == Len(d["close"])

\* df[name] = col
SetCol(d, name, col) ==
    [c \in DOMAIN d \cup {name} |-> IF c = name THEN col ELSE d[c]]

RECURSIVE SelectRows(_, _, _)
\* The values of column s at the rows of keep from row i on, in ascending row order.
SelectRows(s, keep, i) ==
    IF i > Len(s) THEN <<>>
    ELSE IF i \in keep THEN <<s[i]>> \o SelectRows(s, keep, i + 1)
    ELSE SelectRows(s, keep, i + 1)

\* The table of the rows of keep, renumbered from 1 (.reset_index(drop=True)).
TakeRows(d, keep) == [c \in DOMAIN d |-> SelectRows(d[c], keep, 1)]

\* Whether the value v of column c is missing (the integer source columns never are).
IsNA(c, v) == c \in FeatureCols /\ IsNaN(v)

\* DataFrame.dropna(subset=...): the rows with no missing value in the subset's
\* columns.  +-inf is not a missing value.
DropNaRows(d, subset) ==
    {i \in 1..NRows(d) : \A c \in subset : ~IsNA(c, d[c][i])}

(***************************************************************************)
(* pandas / numpy building blocks, as the source uses them                 *)
(***************************************************************************)

\* Series.shift(1), Series.diff(), Series.pct_change(): row i reads row i - 1.
Prev(i) == i - 1

\* s.shift(1)[i] of an integer column: NaN where there is no earlier row.
ShiftInt(s, i) ==
    LET j == Prev(i) IN IF j < 1 \/ j > Len(s) THEN NaN ELSE Fin(s[j], 1)

\* s.shift(1)[i] of a float column.
ShiftVal(s, i) ==
    LET j == Prev(i) IN IF j < 1 \/ j > Len(s) THEN NaN ELSE s[j]

\* The float quotient c / p of an integer c by a shifted integer p = <<"fin", x, 1>>:
\* IEEE division, so x / 0 is +-inf and 0 / 0 is NaN.  Fin(c, x) stands for c / x.
Divide(c, p) ==
    IF IsNaN(p) THEN NaN
    ELSE IF p[2] = 0
         THEN (IF c = 0 THEN NaN ELSE IF c > 0 THEN PosInf ELSE NegInf)
         ELSE Fin(c, p[2])

\* np.log of a quotient: log(+inf) = +inf, log(0) = -inf, log of a negative
\* number and of NaN is NaN.  Fin(a, b) stands for ln(a / b).
Log(r) ==
    IF IsNaN(r) THEN NaN
    ELSE IF r = PosInf THEN PosInf
    ELSE IF r = NegInf THEN NaN
    ELSE IF r[2] = 0 THEN NegInf
    ELSE IF (r[2] > 0) # (r[3] > 0) THEN NaN
    ELSE r

\* r - 1 of a quotient r = a / b: Fin(a - b, b) stands for (a - b) / b.
MinusOne(r) == IF r[1] = "fin" THEN Fin(r[2] - r[3], r[3]) ELSE r

\* Mutant: rolling(window, center=True), a window centred on row i.
CenteredWindowOf(i, w) == (i - w + 1 + (w \div 2)) .. (i + (w \div 2))

\* Series.rolling(window): the rows the window ending at row i covers.
WindowOf(i, w) == (i - w + 1) .. i

\* Mutant: rolling(window, min_periods=1).
MinPeriodsOne(w) == 1

\* Series.rolling(window): min_periods defaults to the window length.
MinPeriods(w) == w

\* The rows of a column of length n that the window at row i really holds.
WindowRows(n, i, w) == WindowOf(i, w) \cap (1..n)

RECURSIVE SumOver(_, _)
SumOver(s, rows) ==
    IF rows = {} THEN 0
    ELSE LET j == CHOOSE k \in rows : TRUE IN s[j] + SumOver(s, rows \ {j})

RECURSIVE SumSqOver(_, _)
SumSqOver(s, rows) ==
    IF rows = {} THEN 0
    ELSE LET j == CHOOSE k \in rows : TRUE IN s[j] * s[j] + SumSqOver(s, rows \ {j})

\* s.rolling(w).mean()[i] of an integer column: Fin(sum, nobs) stands for sum / nobs.
RollingMeanAt(s, i, w) ==
    LET rows == WindowRows(Len(s), i, w)
        nobs == Cardinality(rows)
    IN  IF nobs < MinPeriods(w) \/ nobs = 0 THEN NaN ELSE Fin(SumOver(s, rows), nobs)

RollingMean(s, w) == [i \in 1..Len(s) |-> RollingMeanAt(s, i, w)]

\* s.rolling(w).std()[i] of an integer column (sample standard deviation, ddof = 1;
\* NaN unless nobs > ddof): Fin(a, b) stands for sqrt(a / b), a = nobs * sum(x^2) - sum(x)^2,
\* b = nobs * (nobs - 1).
RollingStdAt(s, i, w) ==
    LET rows == WindowRows(Len(s), i, w)
        nobs == Cardinality(rows)
        sm == SumOver(s, rows)
    IN  IF nobs < MinPeriods(w) \/ nobs <= 1 THEN NaN
        ELSE Fin(nobs * SumSqOver(s, rows) - sm * sm, nobs * (nobs - 1))

RollingStd(s, w) == [i \in 1..Len(s) |-> RollingStdAt(s, i, w)]

RECURSIVE Observed(_, _, _)
\* The observations of rows lo..hi of a float column: rolling() turns +-inf into NaN
\* and NaN is no observation.
Observed(s, lo, hi) ==
    IF lo > hi THEN <<>>
    ELSE IF lo < 1 \/ lo > Len(s) \/ ~(s[lo][1] = "fin") THEN Observed(s, lo + 1, hi)
    ELSE <<s[lo]>> \o Observed(s, lo + 1, hi)

\* s.rolling(w).std()[i] of a float column: <<"std", obs, 0>> stands for the sample
\* standard deviation of the observations obs.
RollingStdFloatAt(s, i, w) ==
    LET rows == WindowRows(Len(s), i, w)
        obs == IF rows = {} THEN <<>>
               ELSE Observed(s, CHOOSE a \in rows : \A b \in rows : a <= b,
                                CHOOSE a \in rows : \A b \in rows : a >= b)
    IN  IF Len(obs) < MinPeriods(w) \/ Len(obs) <= 1 THEN NaN ELSE <<"std", obs, 0>>

RollingStdFloat(s, w) == [i \in 1..Len(s) |-> RollingStdFloatAt(s, i, w)]

\* The numerators of a float column whose values are all <<"fin", a, 1>>.
Numer(s) == [i \in 1..Len(s) |-> s[i][2]]

\* c - m of an integer c and a mean m = a / b: Fin(c * b - a, b).
SubMean(c, m) == IF IsNaN(m) THEN NaN ELSE Fin(c * m[3] - m[2], m[3])

\* x / s of a difference x and a standard deviation s: IEEE division, NaN operands
\* give NaN, x / 0 is +-inf and 0 / 0 is NaN.  Fin(a, b) stands for the quotient of
\* the difference with numerator a by the deviation with squared numerator b.
DivStd(x, s) ==
    IF IsNaN(x) \/ IsNaN(s) THEN NaN
    ELSE IF s[2] = 0
         THEN (IF x[2] = 0 THEN NaN ELSE IF x[2] > 0 THEN PosInf ELSE NegInf)
         ELSE Fin(x[2], s[2])

\* s.diff()[i] = s[i] - s.shift(1)[i] of a float column of means a / b.
DiffAt(s, i) ==
    LET p == ShiftVal(s, i)
    IN  IF IsNaN(s[i]) \/ IsNaN(p) THEN NaN
        ELSE Fin(s[i][2] * p[3] - p[2] * s[i][3], s[i][3] * p[3])

(***************************************************************************)
(* The six stages of feature_pipeline.py; each assigns columns of the      *)
(* table it is given and returns that table.                               *)
(***************************************************************************)

\* Mutant: the stage drops the rows whose return is missing before it returns.
ComputeReturnsDropNa(d) ==
    LET close == d["close"]
        n == Len(close)
        d1 == SetCol(d, "log_return",
                     [i \in 1..n |-> Log(Divide(close[i], ShiftInt(close, i)))])
        d2 == SetCol(d1, "simple_return",
                     [i \in 1..n |-> MinusOne(Divide(close[i], ShiftInt(close, i)))])
    IN  TakeRows(d2, DropNaRows(d2, {"log_return"}))

ComputeReturns(d) ==
    LET close == d["close"]
        n == Len(close)
        d1 == SetCol(d, "log_return",
                     [i \in 1..n |-> Log(Divide(close[i], ShiftInt(close, i)))])
    IN  SetCol(d1, "simple_return",
               [i \in 1..n |-> MinusOne(Divide(close[i], ShiftInt(close, i)))])

ComputeRollingStatistics(d, w) ==
    LET n == NRows(d)
        d1 == SetCol(d, "rolling_mean", RollingMean(d["close"], w))
        d2 == SetCol(d1, "rolling_std", RollingStd(d1["close"], w))
    IN  SetCol(d2, "rolling_zscore",
               [i \in 1..n |->
                   DivStd(SubMean(d2["close"][i], d2["rolling_mean"][i]),
                          d2["rolling_std"][i])])

ComputeVolatilityFeatures(d, w) ==
    SetCol(d, "rolling_volatility", RollingStdFloat(d["log_return"], w))

\* Mutant: the stage stores the range in the high column before it uses it.
ComputePriceActionOverwriteHigh(d, w) ==
    LET n == NRows(d)
        d0 == SetCol(d, "high", [i \in 1..n |-> d["high"][i] - d["low"][i]])
        d1 == SetCol(d0, "price_range", [i \in 1..n |-> Fin(d0["high"][i], 1)])
    IN  SetCol(d1, "rolling_range", RollingMean(Numer(d1["price_range"]), w))

ComputePriceActionFeatures(d, w) ==
    LET n == NRows(d)
        d1 == SetCol(d, "price_range",
                     [i \in 1..n |-> Fin(d["high"][i] - d["low"][i], 1)])
    IN  SetCol(d1, "rolling_range", RollingMean(Numer(d1["price_range"]), w))

ComputeVolumeFeatures(d, w) ==
    LET n == NRows(d)
        d1 == SetCol(d, "volume_mean", RollingMean(d["volume"], w))
        vstd == RollingStd(d1["volume"], w)
    IN  SetCol(d1, "volume_zscore",
               [i \in 1..n |->
                   DivStd(SubMean(d1["volume"][i], d1["volume_mean"][i]), vstd[i])])

ComputeTrendFeatures(d) ==
    SetCol(d, "trend_strength",
           [i \in 1..NRows(d) |-> DiffAt(d["rolling_mean"], i)])

\* build_feature_set: the six stages in their fixed order.
BuildFeatureSet(d, w) ==
    ComputeTrendFeatures(
        ComputeVolumeFeatures(
            ComputePriceActionFeatures(
                ComputeVolatilityFeatures(
                    ComputeRollingStatistics(ComputeReturns(d), w), w), w), w))

\* data_pipeline.generate_derived_features: the same assignments, written out in
\* one function body.
GenerateDerivedFeatures(d, w) ==
    LET n == NRows(d)
        close == d["close"]
        d1 == SetCol(d, "log_return",
                     [i \in 1..n |-> Log(Divide(close[i], ShiftInt(close, i)))])
        d2 == SetCol(d1, "simple_return",
                     [i \in 1..n |-> MinusOne(Divide(close[i], ShiftInt(close, i)))])
        d3 == SetCol(d2, "rolling_mean", RollingMean(d2["close"], w))
        d4 == SetCol(d3, "rolling_std", RollingStd(d3["close"], w))
        d5 == SetCol(d4, "rolling_zscore",
                     [i \in 1..n |->
                         DivStd(SubMean(d4["close"][i], d4["rolling_mean"][i]),
                                d4["rolling_std"][i])])
        d6 == SetCol(d5, "rolling_volatility", RollingStdFloat(d5["log_return"], w))
        d7 == SetCol(d6, "price_range",
                     [i \in 1..n |-> Fin(d6["high"][i] - d6["low"][i], 1)])
        d8 == SetCol(d7, "rolling_range", RollingMean(Numer(d7["price_range"]), w))
        d9 == SetCol(d8, "volume_mean", RollingMean(d8["volume"], w))
        vstd == RollingStd(d9["volume"], w)
        d10 == SetCol(d9, "volume_zscore",
                      [i \in 1..n |->
                          DivStd(SubMean(d9["volume"][i], d9["volume_mean"][i]), vstd[i])])
    IN  SetCol(d10, "trend_strength",
               [i \in 1..n |-> DiffAt(d10["rolling_mean"], i)])


(***************************************************************************)
(* State machine.  Two kinds of run are explored:                          *)
(*  - a caller invokes the chain (build_feature_set, stage by stage, or    *)
(*    generate_derived_features) on a bar series with ascending unique     *)
(*    timestamps, and may invoke it again on the same table object;        *)
(*  - a pipeline (feature_pipeline.run or data_pipeline.run_feature_       *)
(*    pipeline) runs on the raw table the data source returned.            *)
(* The pipelines pass the module constant ROLLING_WINDOW (14) as window;   *)
(* the model lets the configured window range over 1..MaxWindow.           *)
(***************************************************************************)

Windows == 1..MaxWindow

BarSeqs(maxlen) == UNION {[1..n -> Bars] : n \in 0..maxlen}

\* The names reset_index() and the lower-casing of fetch_raw_market_data can leave
\* on the timestamp column: a Datetime or Date index, or an unnamed one.
TimestampColumns == {"datetime", "date", "index"}

FirstStep(e) ==
    IF e \in {"build_feature_set", "run"} THEN "compute_returns"
    ELSE "generate_derived_features"

Init ==
    /\ entry \in {"build_feature_set", "generate_derived_features"}
    /\ window \in Windows
    /\ \E bars \in BarSeqs(MaxLen) :
          df = MakeTable("datetime", [i \in 1..Len(bars) |-> i], bars)
    /\ given = df
    /\ pc = FirstStep(entry)
    /\ calls = 1
    /\ first = NoTable
    /\ feature_df = NoTable
    /\ saved = FALSE
    /\ rendered = FALSE
    /\ error = ""

InitRun ==
    /\ entry \in {"run", "run_feature_pipeline"}
    /\ window \in Windows
    /\ \E bars \in BarSeqs(MaxRawLen) :
       \E tss \in [1..Len(bars) -> 1..MaxTs] :
       \E tscol \in TimestampColumns :
          df = MakeTable(tscol, tss, bars)
    /\ given = IF entry = "run" THEN NoTable ELSE df
    /\ pc = IF entry = "run" THEN "validate" ELSE "generate_derived_features"
    /\ calls = 1
    /\ first = NoTable
    /\ feature_df = NoTable
    /\ saved = FALSE
    /\ rendered = FALSE
    /\ error = ""

\* for col in raw_df.columns: if col.lower() in {"date", "time", "timestamp"}: rename
RenameAlias(d) ==
    IF "datetime" \in DOMAIN d THEN d
    ELSE IF \E c \in DOMAIN d : c \in {"date", "time", "timestamp"}
         THEN LET a == CHOOSE c \in DOMAIN d : c \in {"date", "time", "timestamp"}
              IN  [c \in (DOMAIN d \ {a}) \cup {"datetime"} |->
                      IF c = "datetime" THEN d[a] ELSE d[c]]
         ELSE d

\* feature_pipeline.run, from the fetch to the call of build_feature_set.
Validate ==
    /\ pc = "validate"
    /\ entry = "run"
    /\ IF NRows(df) = 0
       THEN /\ pc' = "failed"
            /\ error' = "RuntimeError: Market data fetch failed"
            /\ UNCHANGED <<df, given>>
       ELSE IF "datetime" \notin DOMAIN RenameAlias(df)
       THEN /\ pc' = "failed"
            /\ error' = "RuntimeError: No datetime column found"
            /\ UNCHANGED <<df, given>>
       ELSE /\ df' = RenameAlias(df)
            /\ given' = df'
            /\ pc' = "compute_returns"
            /\ error' = error
    /\ UNCHANGED <<entry, window, calls, first, feature_df, saved, rendered>>

Staged == entry \in {"build_feature_set", "run"}

StageReturns ==
    /\ pc = "compute_returns" /\ Staged
    /\ df' = ComputeReturns(df)
    /\ pc' = "compute_rolling_statistics"
    /\ UNCHANGED <<entry, window, given, calls, first, feature_df, saved, rendered, error>>

StageRollingStatistics ==
    /\ pc = "compute_rolling_statistics" /\ Staged
    /\ df' = ComputeRollingStatistics(df, window)
    /\ pc' = "compute_volatility_features"
    /\ UNCHANGED <<entry, window, given, calls, first, feature_df, saved, rendered, error>>

StageVolatility ==
    /\ pc = "compute_volatility_features" /\ Staged
    /\ df' = ComputeVolatilityFeatures(df, window)
    /\ pc' = "compute_price_action_features"
    /\ UNCHANGED <<entry, window, given, calls, first, feature_df, saved, rendered, error>>

StagePriceAction ==
    /\ pc = "compute_price_action_features" /\ Staged
    /\ df' = ComputePriceActionFeatures(df, window)
    /\ pc' = "compute_volume_features"
    /\ UNCHANGED <<entry, window, given, calls, first, feature_df, saved, rendered, error>>

StageVolume ==
    /\ pc = "compute_volume_features" /\ Staged
    /\ df' = ComputeVolumeFeatures(df, window)
    /\ pc' = "compute_trend_features"
    /\ UNCHANGED <<entry, window, given, calls, first, feature_df, saved, rendered, error>>

\* The last stage; build_feature_set returns df to its caller.
StageTrend ==
    /\ pc = "compute_trend_features" /\ Staged
    /\ df' = ComputeTrendFeatures(df)
    /\ pc' = IF entry = "run" THEN "dropna" ELSE "returned"
    /\ UNCHANGED <<entry, window, given, calls, first, feature_df, saved, rendered, error>>

GenerateDerived ==
    /\ pc = "generate_derived_features"
    /\ entry \in {"generate_derived_features", "run_feature_pipeline"}
    /\ df' = GenerateDerivedFeatures(df, window)
    /\ pc' = IF entry = "run_feature_pipeline" THEN "persist_dataset" ELSE "returned"
    /\ UNCHANGED <<entry, window, given, calls, first, feature_df, saved, rendered, error>>

\* The caller calls the chain again on the table object it got back.
CallAgain ==
    /\ pc = "returned"
    /\ calls < MaxCalls
    /\ first' = df
    /\ calls' = calls + 1
    /\ pc' = FirstStep(entry)
    /\ UNCHANGED <<entry, window, df, given, feature_df, saved, rendered, error>>

RequiredFields == {"log_return", "rolling_mean", "rolling_std"}

\* run: feature_df.dropna(subset=[...]).reset_index(drop=True)
CompletenessFilter ==
    /\ pc = "dropna"
    /\ feature_df' = TakeRows(df, DropNaRows(df, RequiredFields))
    /\ pc' = "save_processed_data"
    /\ UNCHANGED <<entry, window, df, given, calls, first, saved, rendered, error>>

SaveProcessedData ==
    /\ pc = "save_processed_data"
    /\ saved' = TRUE
    /\ pc' = "render_feature_table"
    /\ UNCHANGED <<entry, window, df, given, calls, first, feature_df, rendered, error>>

RenderFeatureTable ==
    /\ pc = "render_feature_table"
    /\ rendered' = TRUE
    /\ pc' = "done"
    /\ UNCHANGED <<entry, window, df, given, calls, first, feature_df, saved, error>>

\* data_pipeline.persist_dataset: df.dropna().reset_index(drop=True)
PersistDataset ==
    /\ pc = "persist_dataset"
    /\ feature_df' = TakeRows(df, DropNaRows(df, DOMAIN df))
    /\ pc' = "render_dataset_table"
    /\ UNCHANGED <<entry, window, df, given, calls, first, saved, rendered, error>>

\* data_pipeline.render_dataset_table reads recent["datetime"].
RenderDatasetTable ==
    /\ pc = "render_dataset_table"
    /\ IF "datetime" \in DOMAIN feature_df
       THEN /\ rendered' = TRUE
            /\ pc' = "done"
            /\ error' = error
       ELSE /\ rendered' = rendered
            /\ pc' = "failed"
            /\ error' = "KeyError: datetime"
    /\ UNCHANGED <<entry, window, df, given, calls, first, feature_df, saved>>

Next ==
    \/ StageReturns
    \/ StageRollingStatistics
    \/ StageVolatility
    \/ StagePriceAction
    \/ StageVolume
    \/ StageTrend
    \/ GenerateDerived
    \/ CallAgain

NextRun ==
    \/ Validate
    \/ StageReturns
    \/ StageRollingStatistics
    \/ StageVolatility
    \/ StagePriceAction
    \/ StageVolume
    \/ StageTrend
    \/ GenerateDerived
    \/ CompletenessFilter
    \/ SaveProcessedData
    \/ RenderFeatureTable
    \/ PersistDataset
    \/ RenderDatasetTable

Spec == Init /\ [][Next]_vars

SpecRun == InitRun /\ [][NextRun]_vars


(***************************************************************************)
(* Properties                                                              *)
(***************************************************************************)

\* The first t rows of a table.
Truncate(d, t) == [c \in DOMAIN d |-> SubSeq(d[c], 1, t)]

\* The chain the caller invoked, as a function of the table and the window.
Chain(d, w) ==
    IF entry = "build_feature_set" THEN BuildFeatureSet(d, w)
    ELSE GenerateDerivedFeatures(d, w)

AllClosesPositive(d) == \A i \in 1..NRows(d) : d["close"][i] > 0

StrictlyIncreasing(s) == \A i \in 1..Len(s) : \A j \in 1..Len(s) : i < j => s[i] < s[j]

\* C1 (causality, no lookahead): when the chain has returned for a window >= 2,
\* every feature field of every row t equals the same field of row t computed by the
\* chain on the series truncated after row t: no field depends on a later bar.
C1_Causality ==
    (pc = "returned" /\ window >= 2) =>
        \A t \in 1..NRows(given) :
            LET cut == Chain(Truncate(given, t), window)
            IN  \A c \in FeatureCols : df[c][t] = cut[c][t]

\* A run in which a row that is not the last has defined rolling fields and the
\* bars after it differ from it.
C1_Witness ==
    /\ pc = "returned" /\ window = 2 /\ NRows(given) = 3
    /\ IsFinite(df["rolling_zscore"][2])
    /\ IsFinite(df["volume_zscore"][2])
    /\ given["close"][3] # given["close"][2]
    /\ given["volume"][3] # given["volume"][2]

\* C2 (invalid window): with window < 2 on a non-empty series the computation fails
\* before any feature column is computed and returns no table.
C2_InvalidWindowRejected ==
    (window < 2 /\ NRows(given) >= 1) =>
        (pc # "returned" /\ DOMAIN df \cap FeatureCols = {})

\* The raw input of the run is empty or has no column recognizable as a timestamp
\* (the chain keeps the rows and the source columns of df, so df still tells).
InputInvalid ==
    \/ NRows(df) = 0
    \/ DOMAIN df \cap {"datetime", "date", "time", "timestamp"} = {}

\* C3 (validation failures abort with no partial output): in a pipeline run on an
\* empty raw table, or on one with no timestamp column, no feature is computed and
\* neither the filter/persistence step nor the rendering step is reached.
C3_ValidationAborts ==
    InputInvalid =>
        /\ pc \in {"validate", "generate_derived_features", "failed"}
        /\ DOMAIN df \cap FeatureCols = {}
        /\ feature_df = NoTable
        /\ ~saved
        /\ ~rendered

\* C4 (validated time axis): the series run hands to the feature computation has
\* strictly increasing timestamps.
C4_TimeAxisStrictlyIncreasing ==
    (entry = "run" /\ given # NoTable) => StrictlyIncreasing(given["datetime"])

\* C5 (warm-up boundary): for a window W >= 2 and positive closes, once the rolling
\* statistics are computed, rolling_mean and rolling_std are undefined at the rows
\* before the W-th and defined from the W-th row on (all undefined when the series
\* is shorter than W), and no error is raised.
C5_WarmUpBoundary ==
    (window >= 2 /\ "rolling_std" \in DOMAIN df /\ AllClosesPositive(df)) =>
        /\ error = ""
        /\ \A t \in 1..NRows(df) :
              IF t < window
              THEN IsNaN(df["rolling_mean"][t]) /\ IsNaN(df["rolling_std"][t])
              ELSE df["rolling_mean"][t][1] = "fin" /\ df["rolling_std"][t][1] = "fin"

\* A series at least as long as the window, so that both sides of the boundary exist.
C5_Witness ==
    /\ window >= 2 /\ "rolling_std" \in DOMAIN df /\ AllClosesPositive(df)
    /\ NRows(df) > window
    /\ IsNaN(df["rolling_mean"][window - 1])
    /\ df["rolling_std"][window][1] = "fin"

\* C6 (division by zero yields undefined): wherever a divisor of the chain is zero
\* or undefined (close[t-1] for the returns, rolling_std[t] for rolling_zscore, the
\* rolling volume deviation for volume_zscore), the field is undefined.
C6_DivisionByZeroUndefined ==
    (pc = "returned" /\ window >= 2) =>
        \A t \in 1..NRows(df) :
            /\ (t >= 2 /\ df["close"][t - 1] = 0) =>
                   (IsNaN(df["log_return"][t]) /\ IsNaN(df["simple_return"][t]))
            /\ (IsNaN(df["rolling_std"][t]) \/ df["rolling_std"][t][2] = 0) =>
                   IsNaN(df["rolling_zscore"][t])
            /\ LET vstd == RollingStdAt(df["volume"], t, window)
               IN  (IsNaN(vstd) \/ vstd[2] = 0) => IsNaN(df["volume_zscore"][t])

\* C7 (no row dropped or reordered): at every point of the chain, and when it has
\* returned, every column of the table has as many rows as the input series and
\* the timestamp and OHLCV columns are those of the input.
C7_RowsPreserved ==
    /\ \A c \in DOMAIN df : Len(df[c]) = NRows(given)
    /\ \A c \in DOMAIN given : c \in DOMAIN df /\ df[c] = given[c]

\* The chain has returned on a series with undefined warm-up rows.
C7_Witness ==
    /\ pc = "returned" /\ entry = "build_feature_set"
    /\ NRows(given) >= 2
    /\ IsNaN(df["log_return"][1])
    /\ FeatureCols \subseteq DOMAIN df

\* C8 (completeness filter): the filtered table holds exactly the rows of the
\* feature table whose log_return, rolling_mean and rolling_std are all defined,
\* in their original order.
C8_CompletenessFilter ==
    feature_df # NoTable =>
        feature_df =
            TakeRows(df, {i \in 1..NRows(df) :
                             \A c \in RequiredFields : df[c][i][1] = "fin"})

\* C9 (idempotence): a second call of the chain on the table the first call
\* returned, with the same window >= 2, returns the same table.
C9_Idempotence ==
    (pc = "returned" /\ calls >= 2 /\ window >= 2) => df = first

\* The second call has returned on a series with defined and undefined fields.
C9_Witness ==
    /\ pc = "returned" /\ calls = 2 /\ window = 2
    /\ entry = "build_feature_set"
    /\ NRows(df) = 3
    /\ df["rolling_volatility"][3][1] = "std"
    /\ IsNaN(df["trend_strength"][2])

\* C10 (input read-only): once the chain has returned, the table the caller handed
\* to it has the columns and the values it had before the call.
C10_InputUnchanged ==
    (given # NoTable /\ pc \notin {"validate", "failed"} /\ pc # FirstStep(entry)) =>
        (DOMAIN df = DOMAIN given /\ df = given)

====
